---- MODULE Spec2Model ----
(***************************************************************************)
(* The request-tracing middleware of @vafast/opentelemetry                 *)
(* (src/unnamed/part_001, lines 342-466) as a state machine.               *)
(*                                                                         *)
(* One middleware invocation is one request slot r.  The middleware is an  *)
(* async function: it runs in segments separated by its awaits             *)
(* (await next(), await clonedResponse.text()); each segment is one        *)
(* action.  The downstream pipeline next() is the environment: it may      *)
(* look at the active span, await, and then resolve, reject or (before     *)
(* its first await) throw synchronously.                                   *)
(*                                                                         *)
(* The tracing SDK is an external dependency.  Its contract is modelled    *)
(* by the operators of the sections "contexts" and "spans": a child span   *)
(* takes the trace identifier of its parent span context, a span records   *)
(* from its start until end(), a context is an immutable value, and the    *)
(* context given to with() is the active context of the callback's whole   *)
(* await chain (AsyncLocalStorage).  A generated identifier is one no      *)
(* other span has: the span of slot r gets <<"gen", r>>.                    *)
(*                                                                         *)
(* The factory opentelemetry(options) (lines 342-369) is one action on the *)
(* process-wide registrations of the API: the tracer provider and the      *)
(* context manager.  Spec, SpecConc and SpecNested start from a process in *)
(* which one call of the factory has started the SDK; SpecBoot starts      *)
(* before the first call.  What the SDK's sampler decides is not           *)
(* modelled: a span of a registered provider records.                      *)
(***************************************************************************)
EXTENDS Integers, Sequences, FiniteSets, TLC

VARIABLES
    pc,         \* r -> position of the middleware invocation
    req,        \* r -> the Request given to the middleware
    callerCtx,  \* r -> otelContext.active() at the call of the middleware
    ctx,        \* r -> the context extracted from the headers (line 380)
    span,       \* r -> rootSpan, the span started for this request
    started,    \* r -> number of spans the middleware started for this request
    hctx,       \* r -> the active context of next() and of its await chain
    hpc,        \* r -> position of next(): before or after its first await
    seen,       \* r -> what trace.getActiveSpan() showed inside next()
    nextOut,    \* r -> how next() settled
    resp,       \* r -> the Response object next() resolved with
    cloned,     \* r -> the clone made for the body-size measurement
    result,     \* r -> the promise the middleware returned
    callerGot,  \* r -> what the caller read from the response it received
    child,      \* r -> the span next() started with startActiveSpan
    via,        \* r -> the factory call whose middleware serves the request
    nexts,      \* r -> the calls of next() the middleware made, in order
    reqBody,    \* r -> the body of the Request: its text, whether it was read
    handlerGot, \* r -> what next() read from the request's body
    outside,    \* r -> what otelContext.active() showed the caller's code
    calls,      \* number of calls of opentelemetry() in this process so far
    last,       \* the latest call of opentelemetry(): its options and outcome
    provider,   \* the tracer provider installed process-wide
    manager,    \* the context manager installed process-wide
    sdks,       \* the calls that constructed a NodeSDK and started it
    enabled,    \* the calls whose contextManager had enable() called
    privateApi, \* whether the API object has the method _getContextManager
    wpc,        \* position of a call of the active-span wrapper
    wspan,      \* the span the wrapper started for the work function
    wfree,      \* a span started with startSpan and never made active
    wwork,      \* what the work function did so far
    wout,       \* what the call of the wrapper returned or threw
    wset        \* the latest call of setAttributes(attributes)

\* the state of a call of startActiveSpan and of setAttributes
wrapVars == <<wpc, wspan, wfree, wwork, wout, wset>>

\* the state of one process: what the factory reads and writes
procVars == <<calls, last, provider, manager, sdks, enabled, privateApi>>

\* the state of the middleware invocations
reqVars == <<pc, req, callerCtx, ctx, span, started, hctx, hpc, seen, nextOut,
             resp, cloned, result, callerGot, child, via, nexts, reqBody,
             handlerGot, outside>>

vars == <<pc, req, callerCtx, ctx, span, started, hctx, hpc, seen, nextOut,
          resp, cloned, result, callerGot, child, via, nexts, reqBody,
          handlerGot, outside, calls, last, provider,
          manager, sdks, enabled, privateApi, wpc, wspan, wfree, wwork, wout,
          wset>>

-----------------------------------------------------------------------------
(* Bounds *)

\* number of middleware invocations in flight at once (SpecConc)
MaxReq == 2

\* longest URL path, in characters
MaxPathLen == 2

\* longest response body text, in characters
MaxBodyLen == 2

\* number of calls of the factory opentelemetry() in one process (SpecBoot)
MaxCalls == 3

-----------------------------------------------------------------------------
(* Strings are sequences of tokens *)

Origin == "http://localhost"

PathChars == {"/", "a"}

RECURSIVE SeqsUpTo(_, _)
SeqsUpTo(S, n) ==
    IF n = 0 THEN {<<>>}
    ELSE LET shorter == SeqsUpTo(S, n - 1)
         IN  shorter \cup {Append(s, c) : s \in shorter, c \in S}

\* absolute paths: they start with "/"
Paths == {p \in SeqsUpTo(PathChars, MaxPathLen) : Len(p) >= 1 /\ p[1] = "/"}

Queries == {<<>>, <<"?", "q">>}

\* req.url: the serialised absolute URL
Urls == {<<Origin>> \o p \o q : p \in Paths, q \in Queries}

Methods == {"GET", "POST"}

BodyTexts == SeqsUpTo({"x"}, MaxBodyLen)

-----------------------------------------------------------------------------
(* Contexts and span references (the API's Context, trace.setSpan,         *)
(* trace.getSpan, propagation.extract)                                     *)

NoId == <<"none", 0>>

\* what trace.getSpan(context) returns: nothing, the wrapper of a remote span
\* context, a span of the caller, or the span of request `owner`
NoRef == [kind |-> "none", owner |-> 0, trace |-> NoId, sid |-> NoId]

RemoteRef(k) ==
    [kind |-> "remote", owner |-> 0, trace |-> <<"ext", k>>, sid |-> <<"exs", k>>]

OuterRef(k) ==
    [kind |-> "outer", owner |-> 0, trace |-> <<"out", k>>, sid |-> <<"ous", k>>]

RequestRef(r, s) ==
    [kind |-> "request", owner |-> r, trace |-> s.traceId, sid |-> s.spanId]

\* a context is a value: the span it carries
ROOT_CONTEXT == [span |-> NoRef]

SetSpan(c, ref) == [c EXCEPT !.span = ref]

GetSpan(c) == c.span

-----------------------------------------------------------------------------
(* Request headers and the propagator *)

\* String.prototype.toLowerCase on the header names in use
ToLower(n) ==
    CASE n = "User-Agent" -> "user-agent"
      [] n = "X-Id"       -> "x-id"
      [] n = "Traceparent" -> "traceparent"
      [] n = "Content-Type" -> "content-type"
      [] OTHER            -> n

\* req.headers.entries(): the Headers object yields lower-cased names
HeadersEntries(h) ==
    [n \in {ToLower(k) : k \in DOMAIN h} |->
        h[CHOOSE k \in DOMAIN h : ToLower(k) = n]]

\* the W3C traceparent header: the remote context it names, 0 when malformed
ParseTraceParent(v) ==
    CASE v = "00-t1-s1-01" -> 1
      [] v = "00-t2-s2-01" -> 2
      [] OTHER             -> 0

\* mutant: the headers are extracted onto the empty context, not the active
\* one
ExtractFromRoot(c, carrier) ==
    IF "traceparent" \in DOMAIN carrier
       /\ ParseTraceParent(carrier["traceparent"]) # 0
    THEN SetSpan(c, RemoteRef(ParseTraceParent(carrier["traceparent"])))
    ELSE ROOT_CONTEXT

\* propagation.extract(context, carrier)
Extract(c, carrier) ==
    IF "traceparent" \in DOMAIN carrier
       /\ ParseTraceParent(carrier["traceparent"]) # 0
    THEN SetSpan(c, RemoteRef(ParseTraceParent(carrier["traceparent"])))
    ELSE c

NoHeaders == <<>>

HeaderMaps ==
    { NoHeaders,
      "Traceparent" :> "00-t1-s1-01",
      "traceparent" :> "garbage",
      "User-Agent" :> "curl" @@ "X-Id" :> "7" }

\* the contexts the middleware may be called in: no active span, or a span
\* of the caller
CallerContexts == {ROOT_CONTEXT, SetSpan(ROOT_CONTEXT, OuterRef(1))}

-----------------------------------------------------------------------------
(* Spans (the SDK's Span: startSpan, setStatus, setAttributes,             *)
(* recordException, updateName, end, isRecording)                          *)

Unset == [code |-> "UNSET", message |-> ""]

NoSpan ==
    [traceId |-> NoId, spanId |-> NoId, parent |-> NoId, name |-> <<>>,
     kind |-> "none", status |-> Unset, attrs |-> <<>>, exceptions |-> <<>>,
     ended |-> FALSE, ops |-> <<>>]

\* tracer.startSpan(name, {kind}, context); n is the identifier generated
StartSpan(name, kind, c, n) ==
    [traceId    |-> IF GetSpan(c).kind = "none" THEN <<"gen", n>>
                    ELSE GetSpan(c).trace,
     spanId     |-> <<"gen", n>>,
     parent     |-> GetSpan(c).sid,
     name       |-> name,
     kind       |-> kind,
     status     |-> Unset,
     attrs      |-> <<>>,
     exceptions |-> <<>>,
     ended      |-> FALSE,
     ops        |-> <<"startSpan">>]

IsRecording(s) == s.kind # "none" /\ ~s.ended

\* the operations of a span change nothing once it is ended, and nothing on
\* a non-recording span
SpanSetStatus(s, st) == IF ~IsRecording(s) THEN s ELSE [s EXCEPT !.status = st]

SpanSetAttributes(s, a) ==
    IF ~IsRecording(s) THEN s ELSE [s EXCEPT !.attrs = a @@ @]

SpanRecordException(s, e) ==
    IF ~IsRecording(s) THEN s ELSE [s EXCEPT !.exceptions = Append(@, e)]

SpanUpdateName(s, n) == IF ~IsRecording(s) THEN s ELSE [s EXCEPT !.name = n]

SpanEnd(s) == [s EXCEPT !.ended = TRUE]

\* the middleware's own calls on rootSpan are kept in order in ops
Called(s, op) == [s EXCEPT !.ops = Append(@, op)]

-----------------------------------------------------------------------------
(* Thrown values and responses *)

\* the values next() may throw or reject with; `id` is the object's identity
Thrown ==
    { [type |-> "Error",     val |-> "boom", id |-> "e1"],
      [type |-> "Error",     val |-> "",     id |-> "e2"],
      [type |-> "string",    val |-> "oops", id |-> "e3"],
      [type |-> "undefined", val |-> "",     id |-> "e4"] }

\* String(error)
StringOf(e) ==
    CASE e.type = "Error"     -> IF e.val = "" THEN "Error" ELSE "Error: " \o e.val
      [] e.type = "string"    -> e.val
      [] e.type = "undefined" -> "undefined"
      [] OTHER                -> "[object Object]"

\* the TypeError of Response.clone() on a body that is used or locked
CloneError == [type |-> "Error", val |-> "Body is unusable", id |-> "clone"]

\* the error of a body stream that fails while it is read
StreamError == [type |-> "Error", val |-> "stream failed", id |-> "stream"]

NoValue == [type |-> "none", val |-> "", id |-> "none"]

\* a Response body: none (body === null), or a stream that delivers `text`
\* and closes ("readable"), fails ("erroring") or never closes ("endless");
\* `used` when it was already consumed or is locked
Bodies ==
    {[kind |-> "none", text |-> <<>>, used |-> FALSE]}
    \cup {[kind |-> "readable", text |-> t, used |-> FALSE] : t \in BodyTexts}
    \cup {[kind |-> "readable", text |-> <<"x">>, used |-> TRUE]}
    \cup {[kind |-> k, text |-> <<"x">>, used |-> FALSE] :
            k \in {"erroring", "endless"}}

ResponseHeaderMaps == {NoHeaders, "Content-Type" :> "application/json"}

Statuses == {200, 404}

Responses ==
    [status : Statuses, headers : ResponseHeaderMaps, body : Bodies]

NoResponse ==
    [status |-> 0, headers |-> NoHeaders,
     body |-> [kind |-> "none", text |-> <<>>, used |-> FALSE]]

\* response.body is non-null
HasBody(rs) == rs.body.kind # "none"

\* response.clone() throws on a used or locked body
CanClone(rs) == ~rs.body.used

-----------------------------------------------------------------------------
(* The middleware's steps (opentelemetry, lines 371-465) *)

RECURSIVE TakePath(_, _)
TakePath(u, i) ==
    IF i > Len(u) \/ u[i] \in {"?", "#"} THEN <<>>
    ELSE <<u[i]>> \o TakePath(u, i + 1)

\* new URL(req.url).pathname: what follows the origin, up to the query
Pathname(u) == TakePath(u, 2)

\* mutant: one span, started once, serves every request
RootSpanShared(c, n) == StartSpan(<<"request">>, "SERVER", c, 1)

\* mutant: the span comes from a placeholder tracer and records nothing
RootSpanNoop(c, n) == [NoSpan EXCEPT !.ops = <<"startSpan">>]

\* mutant: the span takes over the span identifier of its parent
RootSpanParentId(c, n) ==
    [StartSpan(<<"request">>, "SERVER", c, n) EXCEPT
        !.spanId = IF GetSpan(c).kind = "none" THEN @ ELSE GetSpan(c).sid]

\* lines 382-386: tracer.startActiveSpan('request', {kind: SERVER}, ctx, ...)
RootSpan(c, n) == StartSpan(<<"request">>, "SERVER", c, n)

\* mutant: next() runs in the extracted context, the span not set in it
RequestContextNoSpan(c, ref) == c

\* line 389: trace.setSpan(ctx, rootSpan), the context next() runs in
RequestContext(c, ref) == SetSpan(c, ref)

\* lines 396-398
SetOk(s) == Called(SpanSetStatus(s, [code |-> "OK", message |-> ""]), "setStatus")

\* lines 401-407
BasicAttributes(rq, rs) ==
    "http.request.method" :> rq.method
    @@ "url.path" :> Pathname(rq.url)
    @@ "url.full" :> rq.url
    @@ "http.response.status_code" :> rs.status

\* lines 413-414
BodySizeAttribute(text) == "http.response.body.size" :> Len(text)

\* lines 418-423 and 426-433: one attribute per header, user-agent left out
\* of the request's
HeaderAttributes(prefix, h, skip) ==
    LET names == {n \in DOMAIN h : ToLower(n) \notin skip}
    IN  [k \in {prefix \o ToLower(n) : n \in names} |->
            h[CHOOSE n \in names : prefix \o ToLower(n) = k]]

RequestHeaderAttributes(rq) ==
    HeaderAttributes("http.request.header.", HeadersEntries(rq.headers),
                     {"user-agent"})

ResponseHeaderAttributes(rs) ==
    HeaderAttributes("http.response.header.", HeadersEntries(rs.headers), {})

\* line 435
ApplyAttributes(s, a) == Called(SpanSetAttributes(s, a), "setAttributes")

\* mutant: the message is read off the value whatever it is (err?.message)
ErrorMessageOfAny(e) == e.val

\* lines 442-445
ErrorMessage(e) == IF e.type = "Error" THEN e.val ELSE StringOf(e)

\* lines 438-450: the catch block's work on the span
CatchBlock(s, e) ==
    LET s1 == Called(SpanSetStatus(s, [code |-> "ERROR",
                                       message |-> ErrorMessage(e)]),
                     "setStatus")
    IN  IF e.type = "Error"
        THEN Called(SpanRecordException(s1, e), "recordException")
        ELSE s1

\* mutant: the failure is wrapped in a new error
RethrownWrapped(e) ==
    [type |-> "Error", val |-> ErrorMessage(e), id |-> "wrapped"]

\* line 452: throw error
Rethrown(e) == e

\* mutant: the name is built from the URL with its query string
SpanNameWithQuery(rq) == <<rq.method, " ">> \o Tail(rq.url)

\* line 456
SpanName(rq) == <<rq.method, " ">> \o Pathname(rq.url)

\* mutant: the span is ended at the end of the try block, not in finally
FinallyBlockNoEndOnError(s, rq) ==
    IF s.status.code = "ERROR"
    THEN Called(SpanUpdateName(s, <<rq.method, " ">> \o Pathname(rq.url)),
                "updateName")
    ELSE Called(SpanEnd(Called(SpanUpdateName(s, <<rq.method, " ">>
                                                  \o Pathname(rq.url)),
                               "updateName")), "end")

\* mutant: the span is ended before it is renamed
FinallyBlockEndFirst(s, rq) ==
    Called(SpanUpdateName(Called(SpanEnd(s), "end"), SpanName(rq)),
           "updateName")

\* lines 453-458: the finally block
FinallyBlock(s, rq) ==
    Called(SpanEnd(Called(SpanUpdateName(s, SpanName(rq)), "updateName")),
           "end")

\* line 412: the response whose body text is read for the size
MeasuredResponse == "clone"

\* line 437: the response the middleware returns
ReturnedResponse == "original"

\* the promise of the middleware
Pending == [state |-> "pending", error |-> NoValue, response |-> "none"]

Resolved(which) == [state |-> "resolved", error |-> NoValue, response |-> which]

Rejected(e) == [state |-> "rejected", error |-> e, response |-> "none"]

NotCalled == [state |-> "none", error |-> NoValue, response |-> "none"]

NotSettled == [kind |-> "pending", error |-> NoValue, response |-> NoResponse]

NotRead == [read |-> FALSE, ok |-> FALSE, text |-> <<>>]

\* lines 416-437 and 453-458: the rest of the try block once the body size is
\* known (`size` is the attribute or empty), then finally
SucceedWith(r, s, size) ==
    LET attrs == ResponseHeaderAttributes(resp[r])
                 @@ RequestHeaderAttributes(req[r])
                 @@ size
                 @@ BasicAttributes(req[r], resp[r])
    IN  /\ span' = [span EXCEPT ![r] = FinallyBlock(ApplyAttributes(s, attrs), req[r])]
        /\ result' = [result EXCEPT ![r] = Resolved(ReturnedResponse)]
        /\ pc' = [pc EXCEPT ![r] = "done"]

\* lines 438-458: catch, then finally; the middleware's promise rejects
FailWith(r, s, e) ==
    /\ span' = [span EXCEPT ![r] = FinallyBlock(CatchBlock(s, e), req[r])]
    /\ result' = [result EXCEPT ![r] = Rejected(Rethrown(e))]
    /\ pc' = [pc EXCEPT ![r] = "done"]

-----------------------------------------------------------------------------
(* The factory opentelemetry(options) (lines 342-369) and the process-wide  *)
(* registrations of the API it reads and writes                            *)

\* the global tracer provider: none (the API's placeholder), one registered
\* before the plugin was loaded, or the one the NodeSDK of call k registered
NoProvider == [by |-> "none", call |-> 0, serviceName |-> ""]

PreloadedProvider == [by |-> "preload", call |-> 0, serviceName |-> "preloaded"]

SdkProvider(k, name) == [by |-> "sdk", call |-> k, serviceName |-> name]

\* the global context manager: none, one registered before the plugin was
\* loaded, the one NodeSDK.start() of call k registered, or the one call k
\* was given in its options
NoManager == [by |-> "none", call |-> 0]

PreloadedManager == [by |-> "preload", call |-> 0]

SdkManager(k) == [by |-> "sdk", call |-> k]

SuppliedManager(k) == [by |-> "supplied", call |-> k]

\* options.serviceName left out
Omitted == "undefined"

\* the options of a call: serviceName, and contextManager: none, one that
\* works, one whose enable() throws, one whose global installation throws
FactoryOptions ==
    [serviceName : {Omitted, "test-app"},
     contextManager : {"none", "ok", "enableThrows", "installThrows"}]

\* line 343: the default of serviceName
DefaultServiceName == "@vafast/vafast"

ServiceNameOf(o) ==
    IF o.serviceName = Omitted THEN DefaultServiceName ELSE o.serviceName

\* lines 348 and 359: trace.getTracer(serviceName) gives the placeholder
\* ProxyTracer as long as no provider is registered
GetTracer(p) == IF p.by = "none" THEN "ProxyTracer" ELSE "Tracer"

\* mutant: every call bootstraps an SDK
NeedsBootstrapAlways(tracer) == TRUE

\* line 350: tracer instanceof ProxyTracer
NeedsBootstrap(tracer) == tracer = "ProxyTracer"

\* how new NodeSDK(...) and sdk.start() may end
SdkOutcomes == {"started", "constructThrows", "startThrows"}

\* registerGlobal: a registration is refused when one is in place
SetGlobal(current, new) == IF current.by = "none" THEN new ELSE current

\* mutant: the SDK is constructed and never started
SdkStartSkipped(p, m, k, name) == [provider |-> p, manager |-> m]

\* lines 351-357: NodeSDK.start() registers its tracer provider and, with
\* it, its context manager
SdkStart(p, m, k, name) ==
    [provider |-> SetGlobal(p, SdkProvider(k, name)),
     manager  |-> SetGlobal(m, SdkManager(k))]

\* line 363: otelContext._getContextManager?.(): undefined where the API
\* has no such method, else the registered manager or the no-op manager
GetContextManager(m) ==
    IF ~privateApi THEN "undefined"
    ELSE IF m.by = "none" THEN "NoopContextManager" ELSE "ContextManager"

\* line 363: !otelContext._getContextManager?.() && contextManager
ShouldInstall(m, o) ==
    GetContextManager(m) = "undefined" /\ o.contextManager # "none"

\* mutant: no try/catch around enable() and setGlobalContextManager()
InstallFailureEscapesUncaught(cm) == cm \in {"enableThrows", "installThrows"}

\* lines 364-369: try { enable(); setGlobalContextManager() } catch {}
InstallFailureEscapes(cm) == FALSE

\* lines 365-366 on the registered manager
InstallManager(m, cm, k) ==
    IF cm = "ok" THEN SetGlobal(m, SuppliedManager(k)) ELSE m

NoCall ==
    [call |-> 0, options |-> [serviceName |-> Omitted, contextManager |-> "none"],
     found |-> "none", providerAtCall |-> NoProvider, managerAtCall |-> NoManager,
     serviceName |-> "", sdk |-> "none", tracer |-> "none", outcome |-> "none"]

\* lines 342-370: one call of the factory
Factory(o, sdkOutcome) ==
    /\ calls < MaxCalls
    /\ LET k       == calls + 1
           tracer0 == GetTracer(provider)
           boot    == NeedsBootstrap(tracer0)
           sdkUp   == boot /\ sdkOutcome = "started"
           sdkDown == boot /\ sdkOutcome # "started"
           after   == IF sdkUp
                      THEN SdkStart(provider, manager, k, ServiceNameOf(o))
                      ELSE [provider |-> provider, manager |-> manager]
           install == ~sdkDown /\ ShouldInstall(after.manager, o)
           threw   == sdkDown
                      \/ (install /\ InstallFailureEscapes(o.contextManager))
       IN  /\ calls' = k
           /\ provider' = after.provider
           /\ manager' = IF install
                         THEN InstallManager(after.manager, o.contextManager, k)
                         ELSE after.manager
           /\ sdks' = IF sdkUp THEN sdks \cup {k} ELSE sdks
           /\ enabled' = IF install THEN enabled \cup {k} ELSE enabled
           /\ last' = [call |-> k, options |-> o, found |-> tracer0,
                       providerAtCall |-> provider, managerAtCall |-> manager,
                       serviceName |-> ServiceNameOf(o),
                       sdk |-> IF boot THEN sdkOutcome ELSE "none",
                       tracer |-> IF sdkDown THEN "none"
                                  ELSE GetTracer(after.provider),
                       outcome |-> IF threw THEN "threw" ELSE "returned"]
    /\ UNCHANGED <<privateApi, reqVars, wrapVars>>

\* the span of a tracer's startSpan: a real one from a registered provider,
\* else the no-op tracer's non-recording span
TracerStartSpan(p, s) ==
    IF p.by = "none" THEN [NoSpan EXCEPT !.ops = <<"startSpan">>] ELSE s

\* otelContext.with(context, fn): the context that is active inside fn; the
\* no-op manager in place when none is registered keeps ROOT_CONTEXT active
ActiveInside(m, c) == IF m.by = "none" THEN ROOT_CONTEXT ELSE c

-----------------------------------------------------------------------------
(* Actions *)

\* line 393: one call of next(): the spans this invocation had started when
\* it was made, and the span that is active in it
NextCall(n, c) == [spans |-> n, active |-> GetSpan(c)]

\* the body of a Request: its text, and whether it was read (bodyUsed)
RequestBody(t) == [text |-> t, used |-> FALSE]

\* mutant: the middleware reads the request's text, for its size
MwRequestBodyRead(b) == [b EXCEPT !.used = TRUE]

\* lines 371-423: the middleware uses req.method, req.url and req.headers
\* and makes no call on the body
MwRequestBody(b) == b

\* mutant: the context of next() is installed and left in place
ActiveOutsideLeaked(m, before, inner) == inner

\* lines 382-390: startActiveSpan and otelContext.with make their context
\* active for the callback and its await chain only; the code around the
\* call keeps its own
ActiveOutside(m, before, inner) == IF m.by = "none" THEN ROOT_CONTEXT ELSE before

\* lines 371-393: the middleware is called; it extracts the context, starts
\* the span and calls next() inside the span's context
Invoke(r, m, u, h, a) ==
    /\ pc[r] = "idle"
    /\ last.outcome = "returned"
    /\ a = ActiveInside(manager, a)
    /\ LET rq == [method |-> m, url |-> u, headers |-> h]
           c  == Extract(a, HeadersEntries(h))
           s  == TracerStartSpan(provider, RootSpan(c, r))
       IN  /\ req' = [req EXCEPT ![r] = rq]
           /\ callerCtx' = [callerCtx EXCEPT ![r] = a]
           /\ ctx' = [ctx EXCEPT ![r] = c]
           /\ span' = [span EXCEPT ![r] = s]
           /\ hctx' = [hctx EXCEPT ![r] =
                       ActiveInside(manager,
                                    RequestContext(c, RequestRef(r, s)))]
    /\ started' = [started EXCEPT ![r] = @ + 1]
    /\ nexts' = [nexts EXCEPT ![r] =
                  Append(@, NextCall(started[r] + 1, hctx'[r]))]
    /\ reqBody' = [reqBody EXCEPT ![r] = MwRequestBody(@)]
    /\ via' = [via EXCEPT ![r] = last.call]
    /\ hpc' = [hpc EXCEPT ![r] = "sync"]
    /\ result' = [result EXCEPT ![r] = Pending]
    /\ pc' = [pc EXCEPT ![r] = "next"]
    /\ UNCHANGED <<seen, nextOut, resp, cloned, callerGot, child, handlerGot,
                   outside, procVars, wrapVars>>

\* span.isRecording() of what trace.getActiveSpan() returned
RefRecording(ref) ==
    CASE ref.kind = "request" -> IsRecording(span[ref.owner])
      [] ref.kind = "outer"   -> TRUE
      [] OTHER                -> FALSE

\* code of next() calls trace.getActiveSpan() (the tests' handlers)
HandlerObserve(r) ==
    /\ pc[r] = "next"
    /\ seen' = [seen EXCEPT ![r] = @ \cup
                 {[at |-> hpc[r], ref |-> GetSpan(hctx[r]),
                   recording |-> RefRecording(GetSpan(hctx[r]))]}]
    /\ UNCHANGED <<pc, req, callerCtx, ctx, span, started, hctx, hpc, nextOut,
                   resp, cloned, result, callerGot, child,
                   via, nexts, reqBody, handlerGot, outside,
                   procVars, wrapVars>>

\* next() awaits: the event loop may run other requests before it goes on
HandlerAwait(r) ==
    /\ pc[r] = "next"
    /\ hpc[r] = "sync"
    /\ hpc' = [hpc EXCEPT ![r] = "async"]
    /\ UNCHANGED <<pc, req, callerCtx, ctx, span, started, hctx, seen, nextOut,
                   resp, cloned, result, callerGot, child,
                   via, nexts, reqBody, handlerGot, outside,
                   procVars, wrapVars>>

\* code of next() reads the request's body (await req.text())
HandlerReadBody(r) ==
    /\ pc[r] = "next"
    /\ ~handlerGot[r].read
    /\ handlerGot' = [handlerGot EXCEPT ![r] =
                       [read |-> TRUE, ok |-> ~reqBody[r].used,
                        text |-> IF reqBody[r].used THEN <<>>
                                 ELSE reqBody[r].text]]
    /\ reqBody' = [reqBody EXCEPT ![r].used = TRUE]
    /\ UNCHANGED <<pc, req, callerCtx, ctx, span, started, hctx, hpc, seen,
                   nextOut, resp, cloned, result, callerGot, child, via, nexts,
                   outside, procVars, wrapVars>>

\* where the invocation stands for the code that called the middleware
Phase(r) == IF pc[r] = "done" THEN "after" ELSE "pending"

\* the caller's code, outside the await chain of next(), asks for the active
\* context while the call is pending or after it settled
CallerObserve(r) ==
    /\ pc[r] # "idle"
    /\ outside' = [outside EXCEPT ![r] = @ \cup
                    {[at |-> Phase(r),
                      ctx |-> ActiveOutside(manager, callerCtx[r], hctx[r])]}]
    /\ outside'[r] # outside[r]
    /\ UNCHANGED <<pc, req, callerCtx, ctx, span, started, hctx, hpc, seen,
                   nextOut, resp, cloned, result, callerGot, child, via, nexts,
                   reqBody, handlerGot, procVars, wrapVars>>

\* the error a handler records on the active span by itself
HandlerError == [type |-> "Error", val |-> "Simulated error", id |-> "handler"]

\* code of next() records an error on the active span and sets its status
HandlerRecordError(r) ==
    /\ pc[r] = "next"
    /\ GetSpan(hctx[r]).kind = "request"
    /\ span[GetSpan(hctx[r]).owner].exceptions = <<>>
    /\ span' = [span EXCEPT ![GetSpan(hctx[r]).owner] =
                 SpanSetStatus(SpanRecordException(@, HandlerError),
                               [code |-> "ERROR", message |-> "Operation failed"])]
    /\ UNCHANGED <<pc, req, callerCtx, ctx, started, hctx, hpc, seen, nextOut,
                   resp, cloned, result, callerGot, child,
                   via, nexts, reqBody, handlerGot, outside,
                   procVars, wrapVars>>

\* what the work function given to startActiveSpan does: return a value or
\* throw, both before any await
Works == {"returns", "throws"}

\* the error the work function throws
WorkError == [type |-> "Error", val |-> "work failed", id |-> "work"]

\* line 224: err?.message, undefined on a value that is no Error
MessageOf(e) == IF e.type = "Error" THEN e.val ELSE Omitted

\* mutant: the span is ended without asking whether it records
HandlerFinishAlways(s) == Called(SpanEnd(s), "end")

\* lines 209 and 214: if (span.isRecording()) span.end()
HandlerFinish(s) == IF IsRecording(s) THEN Called(SpanEnd(s), "end") ELSE s

\* mutant: the span is ended first, status and exception come too late
HandlerCatchEndFirst(s, e) ==
    IF ~IsRecording(s) THEN s
    ELSE Called(SpanRecordException(
                    Called(SpanSetStatus(Called(SpanEnd(s), "end"),
                                         [code |-> "ERROR",
                                          message |-> MessageOf(e)]),
                           "setStatus"), e),
                "recordException")

\* mutant: no test of isRecording() before the span is annotated
HandlerCatchUnguarded(s, e) ==
    Called(SpanEnd(
               Called(SpanRecordException(
                          Called(SpanSetStatus(s, [code |-> "ERROR",
                                                   message |-> MessageOf(e)]),
                                 "setStatus"), e),
                      "recordException")),
           "end")

\* lines 217-228: the catch block's work on the span
HandlerCatch(s, e) ==
    IF ~IsRecording(s) THEN s
    ELSE Called(SpanEnd(
                    Called(SpanRecordException(
                               Called(SpanSetStatus(s, [code |-> "ERROR",
                                                        message |-> MessageOf(e)]),
                                      "setStatus"), e),
                           "recordException")),
                "end")

\* mutant: the span is ended when the promise is returned
HandlerOnPromiseEndNow(s) == IF IsRecording(s) THEN Called(SpanEnd(s), "end") ELSE s

\* lines 206-208: work returned a promise or a thenable; the span is left
\* alone until it settles
HandlerOnPromise(s) == s

\* lines 208-212: then() is given no rejection handler: a rejection passes
\* through and nothing is done with the span
HandlerOnRejected(s, e) == s

\* lines 200-232: createActiveSpanHandler(fn) applied to the span, for a
\* work function that returns a value or throws
ActiveSpanHandler(s, w) ==
    IF w = "returns" THEN HandlerFinish(s) ELSE HandlerCatch(s, WorkError)

\* mutant: the span is started from the empty context
ChildParentContextRoot(c) == ROOT_CONTEXT

\* lines 298-303: with no context argument the tracer takes the active
\* context as the parent context
ChildParentContext(c) == c

\* lines 295-303 and 268-274: startActiveSpan(name, fn) wraps fn, and the
\* tracer of getTracer() wraps it once more
ChildSpan(c, n, w) ==
    ActiveSpanHandler(
        ActiveSpanHandler(
            StartSpan(<<"child-operation">>, "INTERNAL", ChildParentContext(c), n),
            w),
        w)

\* the identifier generated for the child span of request r
ChildId(r) == 0 - r

\* code of next() calls startActiveSpan(name, work); a throw of work is not
\* caught there and rejects next()
HandlerStartChild(r, w) ==
    /\ pc[r] = "next"
    /\ child[r] = NoSpan
    /\ child' = [child EXCEPT ![r] = ChildSpan(hctx[r], ChildId(r), w)]
    /\ IF w = "throws"
       THEN /\ nextOut' = [nextOut EXCEPT ![r] =
                   [kind |-> "rejected", error |-> WorkError,
                    response |-> NoResponse]]
            /\ pc' = [pc EXCEPT ![r] = "settled"]
       ELSE UNCHANGED <<nextOut, pc>>
    /\ UNCHANGED <<req, callerCtx, ctx, span, started, hctx, hpc, seen, resp,
                   cloned, result, callerGot, via, nexts, reqBody, handlerGot, outside,
                   procVars, wrapVars>>

\* next() resolves with a response
NextResolve(r, rs) ==
    /\ pc[r] = "next"
    /\ nextOut' = [nextOut EXCEPT ![r] = [kind |-> "resolved", error |-> NoValue,
                                       response |-> rs]]
    /\ resp' = [resp EXCEPT ![r] = rs]
    /\ pc' = [pc EXCEPT ![r] = "settled"]
    /\ UNCHANGED <<req, callerCtx, ctx, span, started, hctx, hpc, seen, cloned,
                   result, callerGot, child,
                   via, nexts, reqBody, handlerGot, outside,
                   procVars, wrapVars>>

\* next() rejects
NextReject(r, e) ==
    /\ pc[r] = "next"
    /\ nextOut' = [nextOut EXCEPT ![r] = [kind |-> "rejected", error |-> e,
                                       response |-> NoResponse]]
    /\ pc' = [pc EXCEPT ![r] = "settled"]
    /\ UNCHANGED <<req, callerCtx, ctx, span, started, hctx, hpc, seen, resp,
                   cloned, result, callerGot, child,
                   via, nexts, reqBody, handlerGot, outside,
                   procVars, wrapVars>>

\* next() throws before it returns a promise: lines 438-458 run at once
NextThrowSync(r, e) ==
    /\ pc[r] = "next"
    /\ hpc[r] = "sync"
    /\ nextOut' = [nextOut EXCEPT ![r] = [kind |-> "thrown", error |-> e,
                                       response |-> NoResponse]]
    /\ FailWith(r, span[r], e)
    /\ UNCHANGED <<req, callerCtx, ctx, started, hctx, hpc, seen, resp, cloned,
                   callerGot, child,
                   via, nexts, reqBody, handlerGot, outside,
                   procVars, wrapVars>>

\* mutant: next() is called and not awaited
MwSucceedNoBodyNoAwait(r) ==
    /\ pc[r] = "next"
    /\ SucceedWith(r, SetOk(span[r]), <<>>)
    /\ UNCHANGED <<req, callerCtx, ctx, started, hctx, hpc, seen, nextOut, resp,
                   cloned, callerGot, child,
                   via, nexts, reqBody, handlerGot, outside,
                   procVars, wrapVars>>

\* lines 393-437 for a response without a body
MwSucceedNoBody(r) ==
    /\ pc[r] = "settled"
    /\ nextOut[r].kind = "resolved"
    /\ ~HasBody(resp[r])
    /\ SucceedWith(r, SetOk(span[r]), <<>>)
    /\ UNCHANGED <<req, callerCtx, ctx, started, hctx, hpc, seen, nextOut, resp,
                   cloned, callerGot, child,
                   via, nexts, reqBody, handlerGot, outside,
                   procVars, wrapVars>>

\* lines 393-412: the response has a body; it is cloned and the read of the
\* clone's text begins
MwStartRead(r) ==
    /\ pc[r] = "settled"
    /\ nextOut[r].kind = "resolved"
    /\ HasBody(resp[r])
    /\ CanClone(resp[r])
    /\ span' = [span EXCEPT ![r] = SetOk(@)]
    /\ cloned' = [cloned EXCEPT ![r] = resp[r]]
    /\ pc' = [pc EXCEPT ![r] = "reading"]
    /\ UNCHANGED <<req, callerCtx, ctx, started, hctx, hpc, seen, nextOut, resp,
                   result, callerGot, child,
                   via, nexts, reqBody, handlerGot, outside,
                   procVars, wrapVars>>

\* lines 393-411, 438-458: response.clone() throws
MwCloneThrows(r) ==
    /\ pc[r] = "settled"
    /\ nextOut[r].kind = "resolved"
    /\ HasBody(resp[r])
    /\ ~CanClone(resp[r])
    /\ FailWith(r, SetOk(span[r]), CloneError)
    /\ UNCHANGED <<req, callerCtx, ctx, started, hctx, hpc, seen, nextOut, resp,
                   cloned, callerGot, child,
                   via, nexts, reqBody, handlerGot, outside,
                   procVars, wrapVars>>

\* mutant: after a rejection next() is called once more
MwOnRejectedRetry(r) ==
    /\ pc[r] = "settled"
    /\ nextOut[r].kind = "rejected"
    /\ Len(nexts[r]) < 2
    /\ nexts' = [nexts EXCEPT ![r] = Append(@, NextCall(started[r], hctx[r]))]
    /\ nextOut' = [nextOut EXCEPT ![r] = NotSettled]
    /\ pc' = [pc EXCEPT ![r] = "next"]
    /\ UNCHANGED <<req, callerCtx, ctx, span, started, hctx, hpc, seen, resp,
                   cloned, result, callerGot, child, via, reqBody, handlerGot,
                   outside, procVars, wrapVars>>

\* lines 438-458 after next() rejected
MwOnRejected(r) ==
    /\ pc[r] = "settled"
    /\ nextOut[r].kind = "rejected"
    /\ FailWith(r, span[r], nextOut[r].error)
    /\ UNCHANGED <<req, callerCtx, ctx, started, hctx, hpc, seen, nextOut, resp,
                   cloned, callerGot, child,
                   via, nexts, reqBody, handlerGot, outside,
                   procVars, wrapVars>>

\* lines 412-437, 453-458: the text of the measured body arrived
BodyReadDone(r) ==
    /\ pc[r] = "reading"
    /\ cloned[r].body.kind = "readable"
    /\ IF MeasuredResponse = "clone"
       THEN /\ cloned' = [cloned EXCEPT ![r].body.used = TRUE]
            /\ UNCHANGED resp
       ELSE /\ resp' = [resp EXCEPT ![r].body.used = TRUE]
            /\ UNCHANGED cloned
    /\ SucceedWith(r, span[r], BodySizeAttribute(cloned[r].body.text))
    /\ UNCHANGED <<req, callerCtx, ctx, started, hctx, hpc, seen, nextOut,
                   callerGot, child,
                   via, nexts, reqBody, handlerGot, outside,
                   procVars, wrapVars>>

\* lines 412, 438-458: the read of the measured body fails
BodyReadFails(r) ==
    /\ pc[r] = "reading"
    /\ cloned[r].body.kind = "erroring"
    /\ FailWith(r, span[r], StreamError)
    /\ UNCHANGED <<req, callerCtx, ctx, started, hctx, hpc, seen, nextOut, resp,
                   cloned, callerGot, child,
                   via, nexts, reqBody, handlerGot, outside,
                   procVars, wrapVars>>

\* the caller reads the body of the response the middleware resolved with
CallerReadBody(r) ==
    /\ pc[r] = "done"
    /\ result[r].state = "resolved"
    /\ ~callerGot[r].read
    /\ LET got == IF result[r].response = "original" THEN resp[r] ELSE cloned[r]
       IN  /\ callerGot' = [callerGot EXCEPT ![r] =
                 [read |-> TRUE, ok |-> ~got.body.used, text |->
                    IF got.body.used THEN <<>> ELSE got.body.text]]
           /\ IF result[r].response = "original"
              THEN /\ resp' = [resp EXCEPT ![r].body.used = HasBody(got)]
                   /\ UNCHANGED cloned
              ELSE /\ cloned' = [cloned EXCEPT ![r].body.used = HasBody(got)]
                   /\ UNCHANGED resp
    /\ UNCHANGED <<pc, req, callerCtx, ctx, span, started, hctx, hpc, seen,
                   nextOut, result, child,
                   via, nexts, reqBody, handlerGot, outside,
                   procVars, wrapVars>>

-----------------------------------------------------------------------------
(* The exported helpers: startActiveSpan / record (lines 295-322), the     *)
(* tracer of getTracer() (260-293) and setAttributes (324-340)             *)

\* the two ways to the wrapper: the exported startActiveSpan, which wraps the
\* work function and hands it to the tracer of getTracer(), which wraps it
\* once more; and that tracer's startActiveSpan called directly
Entries == {"startActiveSpan", "getTracer().startActiveSpan"}

Wraps(entry) == IF entry = "startActiveSpan" THEN 2 ELSE 1

FinishAll(s, n) == IF n = 2 THEN HandlerFinish(HandlerFinish(s)) ELSE HandlerFinish(s)

CatchAll(s, e, n) ==
    IF n = 2 THEN HandlerCatch(HandlerCatch(s, e), e) ELSE HandlerCatch(s, e)

OnPromiseAll(s, n) ==
    IF n = 2 THEN HandlerOnPromise(HandlerOnPromise(s)) ELSE HandlerOnPromise(s)

OnRejectedAll(s, e, n) ==
    IF n = 2 THEN HandlerOnRejected(HandlerOnRejected(s, e), e)
    ELSE HandlerOnRejected(s, e)

\* the value the work function returns or resolves with
WorkValue == "test-result"

\* lines 211 and 216: return result
HandlerResult(v) == v

\* lines 218 and 230: throw error
HandlerRethrown(e) == e

NoWork ==
    [entry |-> "none", endedByWork |-> FALSE, recordingAtFail |-> FALSE,
     failed |-> NoValue]

NoOutcome == [kind |-> "none", state |-> "none", value |-> "", error |-> NoValue]

NoSetCall ==
    [called |-> FALSE, inside |-> FALSE, active |-> FALSE, ret |-> FALSE,
     applied |-> FALSE, changed |-> FALSE]

\* the attributes of the tests' setAttributes call
TestAttributes == "test.key" :> "test.value"

WrapIdle ==
    /\ wpc = "idle"
    /\ wspan = NoSpan
    /\ wfree = NoSpan
    /\ wwork = NoWork
    /\ wout = NoOutcome
    /\ wset = NoSetCall

\* otelContext.active() of code that runs inside the work function (the
\* span was set in it by the tracer) or outside it
ActiveAt(inside) ==
    IF inside
    THEN ActiveInside(manager,
                      SetSpan(ROOT_CONTEXT,
                              [kind |-> "work", owner |-> 0,
                               trace |-> wspan.traceId, sid |-> wspan.spanId]))
    ELSE ROOT_CONTEXT

\* lines 295-303 / 268-274: the span is started and work(span) is called
WrapStart(entry) ==
    /\ wpc = "idle"
    /\ wspan' = TracerStartSpan(provider,
                                StartSpan(<<"test-active-span">>, "INTERNAL",
                                          ROOT_CONTEXT, 0))
    /\ wwork' = [NoWork EXCEPT !.entry = entry]
    /\ wpc' = "running"
    /\ UNCHANGED <<wfree, wout, wset, reqVars, procVars>>

\* the work function ends the span itself
WorkEndsSpan ==
    /\ wpc \in {"running", "pending"}
    /\ ~wwork.endedByWork
    /\ wspan' = SpanEnd(wspan)
    /\ wwork' = [wwork EXCEPT !.endedByWork = TRUE]
    /\ UNCHANGED <<wpc, wfree, wout, wset, reqVars, procVars>>

\* lines 203, 214-216: work returns a value that is no promise
WorkReturns ==
    /\ wpc = "running"
    /\ wspan' = FinishAll(wspan, Wraps(wwork.entry))
    /\ wout' = [kind |-> "value", state |-> "returned",
                value |-> HandlerResult(WorkValue), error |-> NoValue]
    /\ wpc' = "done"
    /\ UNCHANGED <<wfree, wwork, wset, reqVars, procVars>>

\* lines 203, 217-230: work throws before it returns
WorkThrows(e) ==
    /\ wpc = "running"
    /\ wwork' = [wwork EXCEPT !.recordingAtFail = IsRecording(wspan),
                              !.failed = e]
    /\ wspan' = CatchAll(wspan, e, Wraps(wwork.entry))
    /\ wout' = [kind |-> "thrown", state |-> "thrown", value |-> "",
                error |-> HandlerRethrown(e)]
    /\ wpc' = "done"
    /\ UNCHANGED <<wfree, wset, reqVars, procVars>>

\* lines 203-212: work returns a promise; the wrapper returns
\* result.then(...)
WorkReturnsPromise ==
    /\ wpc = "running"
    /\ wspan' = OnPromiseAll(wspan, Wraps(wwork.entry))
    /\ wout' = [kind |-> "promise", state |-> "pending", value |-> "",
                error |-> NoValue]
    /\ wpc' = "pending"
    /\ UNCHANGED <<wfree, wwork, wset, reqVars, procVars>>

\* lines 208-212: the promise of work resolves
WorkResolves ==
    /\ wpc = "pending"
    /\ wspan' = FinishAll(wspan, Wraps(wwork.entry))
    /\ wout' = [wout EXCEPT !.state = "resolved",
                            !.value = HandlerResult(WorkValue)]
    /\ wpc' = "done"
    /\ UNCHANGED <<wfree, wwork, wset, reqVars, procVars>>

\* lines 208-212: the promise of work rejects
WorkRejects(e) ==
    /\ wpc = "pending"
    /\ wwork' = [wwork EXCEPT !.recordingAtFail = IsRecording(wspan),
                              !.failed = e]
    /\ wspan' = OnRejectedAll(wspan, e, Wraps(wwork.entry))
    /\ wout' = [wout EXCEPT !.state = "rejected", !.error = e]
    /\ wpc' = "done"
    /\ UNCHANGED <<wfree, wset, reqVars, procVars>>

\* tracer.startSpan(name): a span that is not made the active one
StartFree ==
    /\ wfree = NoSpan
    /\ wfree' = TracerStartSpan(provider,
                                StartSpan(<<"attribute-test">>, "INTERNAL",
                                          ROOT_CONTEXT, 0 - 1))
    /\ UNCHANGED <<wpc, wspan, wwork, wout, wset, reqVars, procVars>>

\* lines 324-340: setAttributes(attributes), called by the work function
\* (inside) or by code that runs in no span's context
CallSetAttributes(inside) ==
    /\ inside => wpc \in {"running", "pending"}
    /\ LET current == GetSpan(ActiveAt(inside))
           found   == current.kind # "none"
           after   == IF found THEN SpanSetAttributes(wspan, TestAttributes)
                      ELSE wspan
       IN  /\ wspan' = after
           /\ wset' = [called |-> TRUE, inside |-> inside, active |-> found,
                       ret |-> found,
                       applied |-> "test.key" \in DOMAIN after.attrs,
                       changed |-> after # wspan]
    /\ UNCHANGED <<wpc, wfree, wwork, wout, reqVars, procVars>>

-----------------------------------------------------------------------------
(* Specifications *)

NoRequest == [method |-> "", url |-> <<>>, headers |-> NoHeaders]

InitOver(R) ==
    /\ pc = [r \in R |-> "idle"]
    /\ req = [r \in R |-> NoRequest]
    /\ callerCtx = [r \in R |-> ROOT_CONTEXT]
    /\ ctx = [r \in R |-> ROOT_CONTEXT]
    /\ span = [r \in R |-> NoSpan]
    /\ started = [r \in R |-> 0]
    /\ hctx = [r \in R |-> ROOT_CONTEXT]
    /\ hpc = [r \in R |-> "sync"]
    /\ seen = [r \in R |-> {}]
    /\ nextOut = [r \in R |-> NotSettled]
    /\ resp = [r \in R |-> NoResponse]
    /\ cloned = [r \in R |-> NoResponse]
    /\ result = [r \in R |-> NotCalled]
    /\ callerGot = [r \in R |-> NotRead]
    /\ child = [r \in R |-> NoSpan]
    /\ via = [r \in R |-> 0]
    /\ nexts = [r \in R |-> <<>>]
    /\ handlerGot = [r \in R |-> NotRead]
    /\ outside = [r \in R |-> {}]

\* the requests carry no body text
NoBodies(R) == reqBody = [r \in R |-> RequestBody(<<>>)]

\* the process after one call opentelemetry() that found no provider and
\* started the SDK
Booted ==
    /\ calls = 1
    /\ last = [call |-> 1,
               options |-> [serviceName |-> Omitted, contextManager |-> "none"],
               found |-> "ProxyTracer", providerAtCall |-> NoProvider,
               managerAtCall |-> NoManager,
               serviceName |-> DefaultServiceName, sdk |-> "started",
               tracer |-> "Tracer", outcome |-> "returned"]
    /\ provider = SdkProvider(1, DefaultServiceName)
    /\ manager = SdkManager(1)
    /\ sdks = {1}
    /\ enabled = {}
    /\ privateApi = TRUE

Requests == DOMAIN pc

\* one invocation, every input
Init == InitOver({1}) /\ NoBodies({1}) /\ Booted /\ WrapIdle

Next ==
    \/ \E r \in Requests, m \in Methods, u \in Urls, h \in HeaderMaps,
          a \in CallerContexts : Invoke(r, m, u, h, a)
    \/ \E r \in Requests : HandlerObserve(r)
    \/ \E r \in Requests : HandlerAwait(r)
    \/ \E r \in Requests : HandlerRecordError(r)
    \/ \E r \in Requests, rs \in Responses : NextResolve(r, rs)
    \/ \E r \in Requests, e \in Thrown : NextReject(r, e)
    \/ \E r \in Requests, e \in Thrown : NextThrowSync(r, e)
    \/ \E r \in Requests : MwSucceedNoBody(r)
    \/ \E r \in Requests : MwStartRead(r)
    \/ \E r \in Requests : MwCloneThrows(r)
    \/ \E r \in Requests : MwOnRejected(r)
    \/ \E r \in Requests : BodyReadDone(r)
    \/ \E r \in Requests : BodyReadFails(r)
    \/ \E r \in Requests : CallerReadBody(r)

Spec == Init /\ [][Next]_vars

\* one invocation with every outcome of next() and every response; what the
\* event loop guarantees is stated as fairness: a continuation of the
\* middleware that can run does run, a body that closes or fails does so
LiveHeaderMaps == {NoHeaders}

MwProgress ==
    \E r \in {1} :
        \/ MwSucceedNoBody(r)
        \/ MwStartRead(r)
        \/ MwCloneThrows(r)
        \/ MwOnRejected(r)
        \/ BodyReadDone(r)
        \/ BodyReadFails(r)

NextLive ==
    \/ \E r \in Requests, m \in Methods, u \in Urls, h \in LiveHeaderMaps :
          Invoke(r, m, u, h, ROOT_CONTEXT)
    \/ \E r \in Requests, rs \in Responses : NextResolve(r, rs)
    \/ \E r \in Requests, e \in Thrown : NextReject(r, e)
    \/ \E r \in Requests : MwSucceedNoBody(r)
    \/ \E r \in Requests : MwStartRead(r)
    \/ \E r \in Requests : MwCloneThrows(r)
    \/ \E r \in Requests : MwOnRejected(r)
    \/ \E r \in Requests : BodyReadDone(r)
    \/ \E r \in Requests : BodyReadFails(r)

SpecLive == Init /\ [][NextLive]_vars /\ WF_vars(MwProgress)

\* MaxReq invocations in flight at once, interleaving at their awaits; the
\* inputs that decide the trace context, one of each other kind
InitConc ==
    InitOver(1 .. MaxReq) /\ NoBodies(1 .. MaxReq) /\ Booted /\ WrapIdle

ConcHeaderMaps == {NoHeaders, "Traceparent" :> "00-t1-s1-01"}

ConcResponse ==
    [status |-> 200, headers |-> NoHeaders,
     body |-> [kind |-> "none", text |-> <<>>, used |-> FALSE]]

NextConc ==
    \/ \E r \in Requests, h \in ConcHeaderMaps, a \in CallerContexts :
          Invoke(r, "GET", <<Origin, "/">>, h, a)
    \/ \E r \in Requests : HandlerObserve(r)
    \/ \E r \in Requests : HandlerAwait(r)
    \/ \E r \in Requests : NextResolve(r, ConcResponse)
    \/ \E r \in Requests : MwSucceedNoBody(r)

SpecConc == InitConc /\ [][NextConc]_vars

\* one invocation and the code around it: the handler reads the request's
\* body, the caller looks at its active context
InitFrame ==
    /\ InitOver({1})
    /\ reqBody \in [{1} -> {RequestBody(t) : t \in BodyTexts}]
    /\ Booted
    /\ WrapIdle

NextFrame ==
    \/ \E r \in Requests, h \in ConcHeaderMaps, a \in CallerContexts :
          Invoke(r, "POST", <<Origin, "/">>, h, a)
    \/ \E r \in Requests : HandlerReadBody(r)
    \/ \E r \in Requests : CallerObserve(r)
    \/ \E r \in Requests : NextResolve(r, ConcResponse)
    \/ \E r \in Requests, e \in Thrown : NextReject(r, e)
    \/ \E r \in Requests : MwSucceedNoBody(r)
    \/ \E r \in Requests : MwOnRejected(r)

SpecFrame == InitFrame /\ [][NextFrame]_vars

\* one invocation whose next() starts a span of its own with startActiveSpan
NextNested ==
    \/ \E r \in Requests, h \in HeaderMaps, a \in CallerContexts :
          Invoke(r, "GET", <<Origin, "/">>, h, a)
    \/ \E r \in Requests : HandlerObserve(r)
    \/ \E r \in Requests : HandlerAwait(r)
    \/ \E r \in Requests, w \in Works : HandlerStartChild(r, w)
    \/ \E r \in Requests : NextResolve(r, ConcResponse)
    \/ \E r \in Requests : MwSucceedNoBody(r)
    \/ \E r \in Requests : MwOnRejected(r)

SpecNested == Init /\ [][NextNested]_vars

\* a process from its start: the factory is called up to MaxCalls times,
\* with any options, on an API with or without a provider and a context
\* manager registered beforehand; the middleware of the latest call serves a
\* request
InitBoot ==
    /\ InitOver({1})
    /\ NoBodies({1})
    /\ calls = 0
    /\ last = NoCall
    /\ \E pm \in {<<NoProvider, NoManager>>, <<PreloadedProvider, NoManager>>,
                   <<PreloadedProvider, PreloadedManager>>,
                   <<NoProvider, PreloadedManager>>} :
          provider = pm[1] /\ manager = pm[2]
    /\ sdks = {}
    /\ enabled = {}
    /\ privateApi \in BOOLEAN
    /\ WrapIdle

NextBoot ==
    \/ \E o \in FactoryOptions, x \in SdkOutcomes : Factory(o, x)
    \/ \E r \in Requests, h \in ConcHeaderMaps, a \in CallerContexts :
          Invoke(r, "GET", <<Origin, "/">>, h, a)
    \/ \E r \in Requests : HandlerObserve(r)

SpecBoot == InitBoot /\ [][NextBoot]_vars

\* one call of the active-span wrapper and calls of setAttributes, in a
\* process with or without a provider and a context manager registered
InitWrap ==
    /\ InitOver({1})
    /\ NoBodies({1})
    /\ calls = 0
    /\ last = NoCall
    /\ \E pm \in {<<NoProvider, NoManager>>, <<PreloadedProvider, NoManager>>,
                   <<PreloadedProvider, PreloadedManager>>,
                   <<NoProvider, PreloadedManager>>} :
          provider = pm[1] /\ manager = pm[2]
    /\ sdks = {}
    /\ enabled = {}
    /\ privateApi = TRUE
    /\ WrapIdle

NextWrap ==
    \/ \E entry \in Entries : WrapStart(entry)
    \/ WorkEndsSpan
    \/ WorkReturns
    \/ \E e \in Thrown : WorkThrows(e)
    \/ WorkReturnsPromise
    \/ WorkResolves
    \/ \E e \in Thrown : WorkRejects(e)
    \/ StartFree
    \/ \E inside \in BOOLEAN : CallSetAttributes(inside)

SpecWrap == InitWrap /\ [][NextWrap]_vars

-----------------------------------------------------------------------------
(* Properties *)

\* how many times the middleware performed `op` on the span
CallCount(s, op) == Cardinality({i \in DOMAIN s.ops : s.ops[i] = op})

NextFailed(r) == nextOut[r].kind \in {"rejected", "thrown"}

NextResolved(r) == nextOut[r].kind = "resolved"

\* the middleware's promise is settled
MwSettled(r) == result[r].state \in {"resolved", "rejected"}

C2_RethrowsUnchanged ==
    \A r \in Requests :
        NextFailed(r) =>
            /\ result[r].state # "resolved"
            /\ pc[r] = "done" =>
                  /\ result[r].state = "rejected"
                  /\ result[r].error.id = nextOut[r].error.id
                  /\ result[r].error.val = nextOut[r].error.val
                  /\ result[r].error = nextOut[r].error
                  /\ result[r].response = "none"

\* next() threw a value that is no Error, and the middleware rejected
C2_Witness ==
    \E r \in Requests :
        /\ nextOut[r].kind = "thrown"
        /\ nextOut[r].error.type = "string"
        /\ result[r].state = "rejected"

\* C3: if next() resolves with a response, whatever its body, the
\* middleware's promise never rejects: no failure of a tracing step that
\* runs after next() reaches the caller.
C3_NeverRejectsOnSuccess ==
    \A r \in Requests : NextResolved(r) => result[r].state # "rejected"
\* C4: on success (next() resolved) the middleware resolves with the very
\* response object next() returned; its status, headers and body are as
\* next() returned them, the body unread, and the caller reads it in full.
C4_SameResponseUnread ==
    \A r \in Requests :
        (NextResolved(r) /\ pc[r] = "done") =>
            /\ result[r].state = "resolved"
            /\ result[r].response = "original"
            /\ ~callerGot[r].read => resp[r] = nextOut[r].response
            /\ callerGot[r].read =>
                  /\ callerGot[r].ok
                  /\ callerGot[r].text = nextOut[r].response.body.text

\* C5: with several invocations in flight, interleaving at their awaits, the
\* active span of the code of request r's next() is r's own span, before and
\* after every await, and never the span of another request.
C5_OwnSpanAmongOthers ==
    \A r \in Requests :
        /\ pc[r] = "next" =>
              /\ GetSpan(hctx[r]).kind = "request"
              /\ GetSpan(hctx[r]).owner = r
              /\ GetSpan(hctx[r]).sid = span[r].spanId
        /\ \A o \in seen[r] :
              /\ o.ref.kind = "request"
              /\ o.ref.owner = r
              /\ o.ref.sid = span[r].spanId
              /\ \A q \in Requests \ {r} :
                    pc[q] # "idle" => o.ref.sid # span[q].spanId

\* two requests are inside next() at once, each past an await, and each has
\* looked at its active span after the await
C5_Witness ==
    \E r, q \in Requests :
        /\ r # q
        /\ pc[r] = "next" /\ pc[q] = "next"
        /\ \E o \in seen[r] : o.at = "async"
        /\ \E o \in seen[q] : o.at = "async"

\* C6: from the call of next() until it settles, before and after its
\* awaits, the active span is the span the middleware started for the
\* request, and that span is recording.
C6_ActiveAndRecording ==
    \A r \in Requests :
        /\ pc[r] = "next" =>
              /\ GetSpan(hctx[r]) = RequestRef(r, span[r])
              /\ IsRecording(span[r])
              /\ span[r].ops = <<"startSpan">>
        /\ \A o \in seen[r] :
              /\ o.ref = RequestRef(r, span[r])
              /\ o.recording

\* next() is pending after an await and saw its recording span there
C6_Witness ==
    \E r \in Requests :
        /\ pc[r] = "next"
        /\ hpc[r] = "async"
        /\ \E o \in seen[r] : o.at = "async" /\ o.recording

\* the string form of a thrown value that is no Error
StringForm(e) ==
    CASE e.type = "string"    -> e.val
      [] e.type = "undefined" -> "undefined"

\* the exceptions of a span that the handler did not record itself
ByMiddleware(exceptions) ==
    SelectSeq(exceptions, LAMBDA x : x.id # HandlerError.id)

\* C7: when next() throws or rejects with e, the span is ended with status
\* Error and the message e.message (e an Error) or String(e) (otherwise),
\* set before end; the middleware records e as an exception exactly when e
\* is an Error, also before end.
C7_ErrorStatusAndException ==
    \A r \in Requests :
        (NextFailed(r) /\ span[r].ended) =>
            LET e == nextOut[r].error
            IN  /\ span[r].status.code = "ERROR"
                /\ span[r].status.message =
                      (IF e.type = "Error" THEN e.val ELSE StringForm(e))
                /\ ByMiddleware(span[r].exceptions)
                      = (IF e.type = "Error" THEN <<e>> ELSE <<>>)
                /\ span[r].ops =
                      (IF e.type = "Error"
                       THEN <<"startSpan", "setStatus", "recordException",
                              "updateName", "end">>
                       ELSE <<"startSpan", "setStatus", "updateName", "end">>)

\* next() set a status of its own on the span and then rejected with
\* undefined; the span is ended
C7_Witness ==
    \E r \in Requests :
        /\ nextOut[r].kind = "rejected"
        /\ nextOut[r].error.type = "undefined"
        /\ span[r].exceptions = <<HandlerError>>
        /\ span[r].ended

\* C8: on success (next() resolved) the span is ended with status Ok and
\* with http.response.status_code the status of the response of next().
C8_OkStatusAndCode ==
    \A r \in Requests :
        (NextResolved(r) /\ span[r].ended) =>
            /\ span[r].status.code = "OK"
            /\ "http.response.status_code" \in DOMAIN span[r].attrs
            /\ span[r].attrs["http.response.status_code"]
                  = nextOut[r].response.status

\* the path of a URL: what lies between the origin and the first "?"
IsPathOf(p, u) ==
    \E i \in 1 .. Len(u) :
        /\ p = SubSeq(u, 2, i)
        /\ \A j \in 2 .. i : u[j] # "?"
        /\ i = Len(u) \/ u[i + 1] = "?"

\* C9: the span starts as "request", kind server, and keeps that name while
\* next() is pending; when it is ended, after a success or a failure, its
\* name is "<METHOD> <pathname>": the request's method, a space, and the
\* path of its URL without the query string.
C9_SpanName ==
    \A r \in Requests :
        /\ pc[r] = "next" =>
              /\ span[r].name = <<"request">>
              /\ span[r].kind = "SERVER"
        /\ span[r].ended =>
              /\ span[r].kind = "SERVER"
              /\ Len(span[r].name) >= 2
              /\ span[r].name[1] = req[r].method
              /\ span[r].name[2] = " "
              /\ IsPathOf(SubSeq(span[r].name, 3, Len(span[r].name)),
                          req[r].url)

\* a failed POST to a URL with a query string, its span ended
C9_Witness ==
    \E r \in Requests :
        /\ span[r].ended
        /\ NextFailed(r)
        /\ req[r].method = "POST"
        /\ \E i \in DOMAIN req[r].url : req[r].url[i] = "?"

\* C10 as claimed: the handlers of different requests never observe the same
\* trace identifier.
C10_DistinctTraces ==
    \A r, q \in Requests :
        r # q => \A o1 \in seen[r], o2 \in seen[q] : o1.ref.trace # o2.ref.trace

\* the request starts a trace: its headers carry no valid trace context and
\* no span is active where the middleware is called
StartsTrace(r) ==
    /\ pc[r] # "idle"
    /\ GetSpan(callerCtx[r]).kind = "none"
    /\ \A n \in DOMAIN req[r].headers :
          ToLower(n) = "traceparent" => ParseTraceParent(req[r].headers[n]) = 0

\* C10 amended: a request that carries no inbound trace context and is
\* issued where no span is active gets a trace of its own: the trace
\* identifier its handler observes is observed by no other request's.
C10_OwnTraceWhenNoParent ==
    \A r, q \in Requests :
        (r # q /\ StartsTrace(r)) =>
            \A o1 \in seen[r], o2 \in seen[q] : o1.ref.trace # o2.ref.trace

\* two requests without a parent context are in next() at once and both
\* looked at their trace identifier
C10_Witness ==
    \E r, q \in Requests :
        /\ r # q
        /\ StartsTrace(r) /\ StartsTrace(q)
        /\ pc[r] = "next" /\ pc[q] = "next"
        /\ seen[r] # {} /\ seen[q] # {}

\* C11: no two invocations, in flight together or one after the other, have
\* the same span identifier, and the span identifiers their handlers observe
\* are pairwise different, also when the requests share a trace.
C11_DistinctSpanIds ==
    \A r, q \in Requests :
        r # q =>
            /\ (pc[r] # "idle" /\ pc[q] # "idle") =>
                  span[r].spanId # span[q].spanId
            /\ \A o1 \in seen[r], o2 \in seen[q] : o1.ref.sid # o2.ref.sid

\* two requests carrying the same traceparent, one finished before the other
\* was observed, both with an observed span
C11_Witness ==
    \E r, q \in Requests :
        /\ r # q
        /\ pc[r] = "done" /\ pc[q] = "next"
        /\ seen[r] # {} /\ seen[q] # {}
        /\ span[r].traceId = span[q].traceId

\* the remote contexts named by the traceparent headers of request r
RemoteParents(r) ==
    {ParseTraceParent(req[r].headers[n]) :
        n \in {m \in DOMAIN req[r].headers : ToLower(m) = "traceparent"}} \ {0}

\* C12: the span is a child of the context extracted from the headers: with
\* a remote trace context in the headers its trace identifier is the remote
\* one and its parent the remote span; without one, the context active at
\* the call is the parent context: the parent is the span active there, in
\* its trace, or the span is the root of a new trace when none is active.
C12_ChildOfExtracted ==
    \A r \in Requests :
        pc[r] # "idle" =>
            IF RemoteParents(r) # {}
            THEN \A k \in RemoteParents(r) :
                    /\ span[r].traceId = <<"ext", k>>
                    /\ span[r].parent = <<"exs", k>>
            ELSE /\ ctx[r] = callerCtx[r]
                 /\ span[r].parent = GetSpan(callerCtx[r]).sid
                 /\ span[r].traceId =
                       (IF GetSpan(callerCtx[r]).kind = "none"
                        THEN <<"gen", r>> ELSE GetSpan(callerCtx[r]).trace)

\* a request with a remote trace context in a header named "Traceparent",
\* called where a span of the caller is active, has its span started
C12_Witness ==
    \E r \in Requests :
        /\ pc[r] = "next"
        /\ RemoteParents(r) # {}
        /\ GetSpan(callerCtx[r]).kind = "outer"
        /\ span[r].parent # GetSpan(callerCtx[r]).sid

\* C13: a span started with startActiveSpan inside next() is a child of the
\* request span: its parent is the request span, it has the request span's
\* trace identifier, and a span identifier of its own.
C13_ChildOfRequestSpan ==
    \A r \in Requests :
        child[r] # NoSpan =>
            /\ child[r].parent = span[r].spanId
            /\ child[r].traceId = span[r].traceId
            /\ child[r].spanId # span[r].spanId

\* next() started a span after an await, in a request that continues a
\* remote trace
C13_Witness ==
    \E r \in Requests :
        /\ child[r] # NoSpan
        /\ hpc[r] = "async"
        /\ span[r].traceId = <<"ext", 1>>

\* C14: at most one SDK is constructed and started in a process: only a call
\* that finds the placeholder tracer starts one, and a call that finds a
\* provider registered, whatever its serviceName and options, starts none
\* and leaves the registered provider as it is.
C14_AtMostOneSdk ==
    /\ Cardinality(sdks) <= 1
    /\ last.sdk # "none" => last.found = "ProxyTracer"
    /\ last.found = "Tracer" =>
          /\ last.call \notin sdks
          /\ provider = last.providerAtCall
    /\ \A k \in sdks :
          /\ provider.by = "sdk" /\ provider.call = k
          /\ last.call > k => last.sdk = "none"

\* a later call with another serviceName found the SDK of the first call in
\* place
C14_Witness ==
    /\ sdks = {1}
    /\ last.call > 1
    /\ last.outcome = "returned"
    /\ last.options.serviceName = "test-app"
    /\ provider = SdkProvider(1, DefaultServiceName)

\* C15: a failure of new NodeSDK(...) or of sdk.start() inside the factory
\* is swallowed: the call does not throw and returns a middleware.
C15_BootstrapFailureSwallowed ==
    last.sdk \in {"constructThrows", "startThrows"} => last.outcome = "returned"

\* C16: when enable() of the supplied context manager, or its global
\* installation, throws, the factory call does not throw and returns a
\* middleware; the failed manager is not the registered one.
C16_InstallFailureSwallowed ==
    (last.call \in enabled
     /\ last.options.contextManager \in {"enableThrows", "installThrows"}) =>
        /\ last.outcome = "returned"
        /\ last.tracer = "Tracer"
        /\ manager = last.managerAtCall \/ manager = SdkManager(last.call)

\* the factory called enable() on a manager whose enable() throws
C16_Witness ==
    /\ last.call \in enabled
    /\ last.options.contextManager = "enableThrows"
    /\ last.outcome = "returned"

\* C17: a call given a contextManager when none is registered process-wide
\* enables it and leaves it registered, also when the same call starts the
\* SDK; when one is registered at the call, the supplied one is neither
\* enabled nor registered.
C17_ManagerInstalledWhenNone ==
    (last.outcome = "returned" /\ last.options.contextManager = "ok") =>
        IF last.managerAtCall.by = "none"
        THEN /\ last.call \in enabled
             /\ manager = SuppliedManager(last.call)
        ELSE /\ last.call \notin enabled
             /\ manager = last.managerAtCall

\* C18: after a call of the factory returned, with or without options, as
\* the first call of the process or a later one, a provider is registered
\* and the span its middleware starts for a request is a real one: it has
\* identifiers and records while next() is pending.
C18_RealRecordingSpans ==
    /\ last.outcome = "returned" =>
          /\ provider.by # "none"
          /\ last.tracer = "Tracer"
    /\ \A r \in Requests :
          pc[r] = "next" =>
              /\ IsRecording(span[r])
              /\ span[r].spanId # NoId
              /\ span[r].traceId # NoId

\* a later call without options, made after an earlier call had failed to
\* start the SDK, started it, and its middleware serves a request
C18_Witness ==
    \E r \in Requests :
        /\ pc[r] = "next"
        /\ via[r] > 1
        /\ via[r] \in sdks
        /\ last.call = via[r]
        /\ last.options = [serviceName |-> Omitted, contextManager |-> "none"]
        /\ IsRecording(span[r])

\* the lower-cased header names in use
LowerNames == {"user-agent", "x-id", "traceparent", "content-type"}

\* header name n, lower-cased, is among the names of header map h
HasHeader(h, n) == \E m \in DOMAIN h : ToLower(m) = n

\* the value of the header of h whose lower-cased name is n
HeaderValue(h, n) == h[CHOOSE m \in DOMAIN h : ToLower(m) = n]

\* the span of r carries, under `prefix`, the headers of h but `skipped`
CarriesHeaders(r, prefix, h, skipped) ==
    \A n \in LowerNames :
        IF HasHeader(h, n) /\ n \notin skipped
        THEN /\ (prefix \o n) \in DOMAIN span[r].attrs
             /\ span[r].attrs[prefix \o n] = HeaderValue(h, n)
        ELSE (prefix \o n) \notin DOMAIN span[r].attrs

\* C19: on success (next() resolved) the ended span carries
\* http.request.header.<lower-cased name> with the header's value for every
\* request header but user-agent, none for a header the request does not
\* have, and none for user-agent, however its name is written.
C19_RequestHeaderAttributes ==
    \A r \in Requests :
        (NextResolved(r) /\ span[r].ended) =>
            CarriesHeaders(r, "http.request.header.", req[r].headers,
                           {"user-agent"})

\* the attribute keys of C20 for request r
ExpectedKeys(r) ==
    {"http.request.method", "url.path", "url.full", "http.response.status_code"}
    \cup (IF nextOut[r].response.body.kind # "none"
          THEN {"http.response.body.size"} ELSE {})
    \cup {"http.request.header." \o n :
            n \in {m \in LowerNames : HasHeader(req[r].headers, m)
                                      /\ m # "user-agent"}}
    \cup {"http.response.header." \o n :
            n \in {m \in LowerNames : HasHeader(nextOut[r].response.headers, m)}}

\* C20: on success (next() resolved) the attributes of the ended span are
\* exactly the method, the path, the full URL, the status code, the body
\* size when and only when the response has a body (the length of its
\* text), one attribute per request header but user-agent and one per
\* response header; the middleware applied them in one call.
C20_ExactAttributes ==
    \A r \in Requests :
        (NextResolved(r) /\ span[r].ended) =>
            /\ DOMAIN span[r].attrs = ExpectedKeys(r)
            /\ CallCount(span[r], "setAttributes") = 1
            /\ span[r].attrs["http.request.method"] = req[r].method
            /\ IsPathOf(span[r].attrs["url.path"], req[r].url)
            /\ span[r].attrs["url.full"] = req[r].url
            /\ span[r].attrs["http.response.status_code"]
                  = nextOut[r].response.status
            /\ nextOut[r].response.body.kind # "none" =>
                  span[r].attrs["http.response.body.size"]
                     = Len(nextOut[r].response.body.text)
            /\ CarriesHeaders(r, "http.response.header.",
                              nextOut[r].response.headers, {})

\* the calls of end() the wrapper owes a span: one, unless the work function
\* ended the span itself or the span never recorded
EndsOwed == IF wwork.endedByWork \/ wspan.kind = "none" THEN 0 ELSE 1

\* C21: when work returns a value that is no promise, the wrapper returns
\* that value and the span is ended on return; the wrapper calls end only
\* on a span that still records: once, and not at all on a span that work
\* ended itself.
C21_SyncReturnEndsOnce ==
    wout.kind = "value" =>
        /\ wout.value = WorkValue
        /\ wspan.kind # "none" => wspan.ended
        /\ CallCount(wspan, "end") = EndsOwed
        /\ wspan.status = Unset

\* work ended the span itself and returned a value through the exported
\* startActiveSpan
C21_Witness ==
    /\ wout.kind = "value"
    /\ wwork.entry = "startActiveSpan"
    /\ wwork.endedByWork
    /\ wspan.kind # "none"

C23_SyncThrowAnnotates ==
    (wout.kind = "thrown" /\ wwork.recordingAtFail) =>
        /\ wspan.status.code = "ERROR"
        /\ wspan.status.message =
              (IF wwork.failed.type = "Error" THEN wwork.failed.val ELSE Omitted)
        /\ wspan.exceptions = <<wwork.failed>>
        /\ wspan.ended
        /\ wspan.ops = <<"startSpan", "setStatus", "recordException", "end">>
        /\ wout.error = wwork.failed

\* an Error thrown through the exported startActiveSpan, the span recording
C23_Witness ==
    /\ wout.kind = "thrown"
    /\ wwork.recordingAtFail
    /\ wwork.entry = "startActiveSpan"
    /\ wwork.failed.type = "Error"

\* C24: when the promise of work rejects while the span records, the span
\* ends up as after a synchronous throw (status Error with the error's
\* message, the exception recorded, the span ended) and the wrapper's
\* promise rejects with the error.
C24_AsyncRejectAnnotates ==
    (wout.kind = "promise" /\ wout.state = "rejected"
     /\ wwork.recordingAtFail) =>
        /\ wout.error = wwork.failed
        /\ wspan.status.code = "ERROR"
        /\ wspan.status.message =
              (IF wwork.failed.type = "Error" THEN wwork.failed.val ELSE Omitted)
        /\ wspan.exceptions = <<wwork.failed>>
        /\ wspan.ended

\* C25: when work throws and the span does not record (ended, or never
\* recording), the wrapper throws the error and has called neither
\* setStatus nor recordException nor end.
C25_ThrowOnEndedSpan ==
    (wout.kind = "thrown" /\ ~wwork.recordingAtFail) =>
        /\ wout.error = wwork.failed
        /\ wspan.ops = <<"startSpan">>
        /\ wspan.status = Unset
        /\ wspan.exceptions = <<>>

\* work ended its span and then threw
C25_Witness ==
    /\ wout.kind = "thrown"
    /\ wwork.endedByWork
    /\ wspan.kind # "none"
    /\ wwork.failed.type = "Error"

\* C26: setAttributes returns true exactly when a span is active where it is
\* called, and the attributes are then on that span; with no span active,
\* also when a span was started with startSpan and not made active, it
\* returns false and changes no span.
C26_SetAttributesResult ==
    wset.called =>
        /\ wset.ret = wset.active
        /\ wset.ret => wset.applied
        /\ ~wset.ret => (~wset.changed /\ wfree.attrs = <<>>)

\* C27: with serviceName left out of the options, the name the tracer is
\* resolved with and the SDK is configured with is 'vafast-app'.
C27_DefaultServiceName ==
    (last.call > 0 /\ last.options.serviceName = Omitted) =>
        /\ last.serviceName = "vafast-app"
        /\ last.sdk = "started" => provider.serviceName = "vafast-app"

\* the calls the middleware made on the span of r, in order
Ops(r) == span[r].ops

Annotations == {"setStatus", "setAttributes", "recordException"}

\* C28: the middleware's calls on its span are ordered: end is the last
\* call and is made once, updateName is the call before it, every
\* setStatus, setAttributes and recordException comes before updateName and
\* there is at least a setStatus; nothing is called after end.
C28_MutationsBeforeEnd ==
    \A r \in Requests :
        LET n == Len(Ops(r))
        IN  /\ \A i \in 1 .. n :
                  /\ Ops(r)[i] = "end" =>
                        (i = n /\ i > 2 /\ Ops(r)[i - 1] = "updateName")
                  /\ Ops(r)[i] = "updateName" =>
                        /\ i = n - 1
                        /\ \E j \in 1 .. i - 1 : Ops(r)[j] = "setStatus"
                  /\ Ops(r)[i] \in Annotations =>
                        \A j \in 1 .. i : Ops(r)[j] \notin {"updateName", "end"}
            /\ span[r].ended => (n > 0 /\ Ops(r)[n] = "end")
            /\ span[r].ended => span[r].name = SpanName(req[r])

\* measuring the body failed after the success status was written: two
\* status writes and an exception before updateName and end
C28_Witness ==
    /\ span[1].ended
    /\ Ops(1) = <<"startSpan", "setStatus", "setStatus", "recordException",
                  "updateName", "end">>

\* C29: once next() has settled, the span is eventually ended and the
\* middleware's promise eventually settles, whatever the response's body
\* does.
C29_SettlesAfterNext ==
    (nextOut[1].kind \in {"resolved", "rejected"})
        ~> (span[1].ended /\ MwSettled(1))

\* C30: while next() is pending the span is not ended and the middleware's
\* promise is not settled: nothing but the settling of next() leads to
\* either.
C30_NoEndWhileNextPending ==
    \A r \in Requests :
        (pc[r] # "idle" /\ nextOut[r].kind = "pending") =>
            /\ pc[r] = "next"
            /\ ~span[r].ended
            /\ CallCount(span[r], "end") = 0
            /\ Ops(r) = <<"startSpan">>
            /\ result[r] = Pending

\* next() has suspended at an await and has looked at the active span,
\* and has not settled
C30_Witness ==
    /\ pc[1] = "next"
    /\ hpc[1] = "async"
    /\ nextOut[1].kind = "pending"
    /\ \E o \in seen[1] : o.at = "async" /\ o.recording

\* C31: every invocation calls next() exactly once: after its span was
\* started, with that span active in the call; it is never skipped and never
\* called again after it failed.
C31_NextCalledOnce ==
    \A r \in Requests :
        /\ Len(nexts[r]) = (IF pc[r] = "idle" THEN 0 ELSE 1)
        /\ \A i \in DOMAIN nexts[r] :
              /\ nexts[r][i].spans = 1
              /\ nexts[r][i].active = RequestRef(r, span[r])
              /\ nexts[r][i].active.kind = "request"

\* next() rejected, the invocation is over, and next() was called once
C31_Witness ==
    /\ nextOut[1].kind = "rejected"
    /\ pc[1] = "done"
    /\ Len(nexts[1]) = 1

\* C32: what the caller's code sees as the active context while the call is
\* pending and after it settled is the context it had at the call, never
\* one that holds the request span; the contexts of the call stay as they
\* were made.
C32_CallerContextUntouched ==
    \A r \in Requests :
        /\ \A o \in outside[r] :
              /\ o.ctx = callerCtx[r]
              /\ GetSpan(o.ctx).kind # "request"
        /\ pc[r] # "idle" =>
              /\ ctx[r] = Extract(callerCtx[r], HeadersEntries(req[r].headers))
              /\ GetSpan(ctx[r]).kind # "request"
              /\ GetSpan(hctx[r]) = RequestRef(r, span[r])

\* the caller had a span of its own active, and saw it both while the call
\* was pending and after it settled
C32_Witness ==
    /\ pc[1] = "done"
    /\ GetSpan(callerCtx[1]).kind = "outer"
    /\ {o.at : o \in outside[1]} = {"pending", "after"}

\* C33: the middleware leaves the request's body unread and the request as
\* it was given: the handler that reads the body gets its full text, and a
\* body the handler did not read is unread when the invocation is over.
C33_RequestBodyUnread ==
    \A r \in Requests :
        pc[r] # "idle" =>
            /\ handlerGot[r].read =>
                  (handlerGot[r].ok /\ handlerGot[r].text = reqBody[r].text)
            /\ ~handlerGot[r].read => ~reqBody[r].used
            /\ req[r].method = "POST"
            /\ req[r].url = <<Origin, "/">>

\* the handler read a request body of two characters in full
C33_Witness ==
    /\ pc[1] = "done"
    /\ handlerGot[1].read
    /\ Len(handlerGot[1].text) = 2

\* C34: when next() resolved the middleware has called setAttributes on the
\* span exactly once, as its last call before updateName and end; when
\* next() threw or rejected it has not called it and the span carries no
\* attribute.
C34_OneSetAttributesOnSuccess ==
    \A r \in Requests :
        pc[r] = "done" =>
            /\ NextResolved(r) =>
                  /\ CallCount(span[r], "setAttributes") = 1
                  /\ Ops(r)[Len(Ops(r)) - 2] = "setAttributes"
                  /\ "url.full" \in DOMAIN span[r].attrs
            /\ NextFailed(r) =>
                  /\ CallCount(span[r], "setAttributes") = 0
                  /\ DOMAIN span[r].attrs = {}

\* the handler wrote a status of its own on the request span during next()
HandlerWroteStatus(r) ==
    \E i \in DOMAIN span[r].exceptions : span[r].exceptions[i] = HandlerError

\* C35: the status of the ended span is the one the middleware wrote last,
\* whatever the handler wrote during next(): Ok when next() resolved, Error
\* with the failure's message when next() threw or rejected.
C35_MiddlewareStatusWins ==
    \A r \in Requests :
        (pc[r] = "done" /\ HandlerWroteStatus(r)) =>
            /\ NextResolved(r) => span[r].status = [code |-> "OK", message |-> ""]
            /\ NextFailed(r) =>
                  span[r].status = [code |-> "ERROR",
                                    message |-> ErrorMessage(nextOut[r].error)]

====
